---- MODULE Spec2Model ----
(***************************************************************************)
(* Model of parking_collector.py: the retrying fetcher, the persister with *)
(* its uniqueness constraint, the poll cycle and the supervisor loop of    *)
(* main().  Control is cut at the blocking points of the program: the HTTP *)
(* request, the database calls and the three kinds of sleep.               *)
(***************************************************************************)
EXTENDS Integers, Sequences, FiniteSets, TLC

\* ------------------------------------------------------------------------
\* Configuration (parking_collector.py lines 24-36)
\* ------------------------------------------------------------------------
FACILITIES == <<29, 30, 31, 32>>

MAX_RETRIES == 5

MAX_CONSECUTIVE_FAILURES == 3

RETRYABLE_STATUS_CODES == {500, 503}

\* the fatal list without 403, which then falls to the retry branch of line 112
FATAL_STATUS_CODES_without_403 == {401, 404}

FATAL_STATUS_CODES == {401, 403, 404}

\* ------------------------------------------------------------------------
\* Bounds of the model
\* ------------------------------------------------------------------------
\* Number of distinct MessageDate values the upstream API can report.
MaxDate == 1

DateNames == <<"2025-01-01T08:00:00", "2025-01-01T08:10:00", "2025-01-01T08:20:00">>

Dates == {DateNames[i] : i \in 1..MaxDate}

\* Number of consecutive calls of poll_all_facilities a caller makes.
MaxPass == 2

\* Status codes the upstream server answers with; 429 stands for a status
\* that is in neither list of the configuration.
Statuses == {200, 401, 403, 404, 429, 500, 503}

\* ------------------------------------------------------------------------
\* JSON / Python values.  Python's None is the JSON null.
\* ------------------------------------------------------------------------
None == [t |-> "null"]

JInt(n) == [t |-> "int", v |-> n]

JStr(s) == [t |-> "str", v |-> s]

JArr(q) == [t |-> "array", v |-> q]

JObj(f) == [t |-> "object", v |-> f]

\* A response body that response.json() cannot parse.
NotJson == [t |-> "notjson"]

\* bool(x)
Truthy(x) ==
    CASE x.t = "null"   -> FALSE
      [] x.t = "int"    -> x.v # 0
      [] x.t = "str"    -> x.v # ""
      [] x.t = "array"  -> Len(x.v) > 0
      [] x.t = "object" -> DOMAIN x.v # {}

\* whether `key in x` is defined for x (None and numbers raise TypeError)
SupportsIn(x) == x.t \in {"array", "object"}

\* key in x, for a dict or a list
KeyIn(key, x) ==
    IF x.t = "object" THEN key \in DOMAIN x.v
    ELSE \E i \in 1..Len(x.v) : x.v[i] = JStr(key)

\* whether x has a method get (only dicts do; anything else raises
\* AttributeError)
HasGet(x) == x.t = "object"

\* x.get(key, default) for a dict x
Get(x, key, default) == IF key \in DOMAIN x.v THEN x.v[key] ELSE default

EmptyDict == JObj([k \in {} |-> None])

\* ------------------------------------------------------------------------
\* What the upstream API can answer to GET ?facility=f
\* ------------------------------------------------------------------------
\* a well-formed reading
Reading(f, d) ==
    JObj([facility_id |-> JInt(f), facility_name |-> JStr("Park&Ride"),
          MessageDate |-> JStr(d), spots |-> JInt(100),
          occupancy |-> JObj([total |-> JInt(40)])])

\* a reading without the optional typed fields
SparseReading(f, d) ==
    JObj([facility_id |-> JInt(f), facility_name |-> JStr("Park&Ride"),
          MessageDate |-> JStr(d)])

\* a reading whose occupancy member is null
NullOccupancyReading(f, d) ==
    JObj([facility_id |-> JInt(f), facility_name |-> JStr("Park&Ride"),
          MessageDate |-> JStr(d), spots |-> JInt(100), occupancy |-> None])

\* a reading without facility_id
AnonymousReading(d) ==
    JObj([facility_name |-> JStr("Park&Ride"), MessageDate |-> JStr(d),
          spots |-> JInt(100), occupancy |-> JObj([total |-> JInt(40)])])

\* the application-level error envelope of the API
ErrorBody == JObj([ErrorDetails |-> JObj([Message |-> JStr("Invalid facility")])])

\* an error envelope whose ErrorDetails member is a plain string
ErrorTextBody == JObj([ErrorDetails |-> JStr("Invalid facility")])

\* 200 bodies
Bodies(f) ==
    {NotJson, None, JArr(<<JInt(f)>>), EmptyDict, ErrorBody, ErrorTextBody}
    \cup {Reading(f, d) : d \in Dates}
    \cup {NullOccupancyReading(f, d) : d \in Dates}
    \cup {AnonymousReading(d) : d \in Dates}

Timeout == [kind |-> "Timeout"]

ConnectionError == [kind |-> "RequestException"]

Http(status, body) == [kind |-> "response", status_code |-> status, body |-> body]

\* outcomes of requests.get(url, headers, timeout=30)
Responses(f) ==
    {Timeout, ConnectionError}
    \cup {Http(s, NotJson) : s \in Statuses \ {200}}
    \cup {Http(200, b) : b \in Bodies(f)}

\* an API that may answer every request differently
AnyOutcome == [kind |-> "any"]

\* what an API whose state does not change answers for facility f
Unchanged(f) ==
    {Timeout, Http(404, NotJson), Http(200, EmptyDict)}
    \cup {Http(200, Reading(f, d)) : d \in Dates}
    \cup {Http(200, NullOccupancyReading(f, DateNames[1])),
          Http(200, AnonymousReading(DateNames[1]))}

UnchangedAnswers ==
    {u \in [1..Len(FACILITIES) -> UNION {Unchanged(FACILITIES[i]) : i \in 1..Len(FACILITIES)}] :
        \A i \in 1..Len(FACILITIES) : u[i] \in Unchanged(FACILITIES[i])}

\* an API that is down: it answers no request with status 200
Outage == [kind |-> "outage"]

\* the outcomes the request for facility f can have, given what the API is
\* set to answer
Answers(answer, f) ==
    IF answer = AnyOutcome THEN Responses(f)
    ELSE IF answer = Outage THEN {r \in Responses(f) : r.kind # "response" \/ r.status_code # 200}
    ELSE {answer}

\* ------------------------------------------------------------------------
\* fetch_parking_data: what one invocation does with the outcome of its
\* request, at attempt index retry_count
\* ------------------------------------------------------------------------
Return(value) == [do |-> "return", value |-> value]

Retry(wait) == [do |-> "retry", wait_time |-> wait]

Raise(exc) == [do |-> "raise", exc |-> exc]

\* a backoff that grows linearly instead of doubling
wait_time_linear(retry_count) == 2 * retry_count

\* lines 114 and 128
wait_time(retry_count) == 2 ^ retry_count

\* the exhaustion test made with <= instead of <: one retry more
backoff_one_more(retry_count) ==
    IF retry_count <= MAX_RETRIES THEN Retry(wait_time(retry_count))
    ELSE Return(None)

\* lines 113-120 and 127-134
backoff(retry_count) ==
    IF retry_count < MAX_RETRIES THEN Retry(wait_time(retry_count))
    ELSE Return(None)

\* lines 97-106
on_status_200(body) ==
    IF body = NotJson THEN Return(None)
    ELSE IF ~SupportsIn(body) THEN Raise("TypeError")
    ELSE IF KeyIn("ErrorDetails", body)
         THEN IF ~HasGet(body) THEN Raise("TypeError")
              ELSE IF ~HasGet(body.v["ErrorDetails"]) THEN Raise("AttributeError")
              ELSE Return(None)
    ELSE Return(body)

\* the handlers of lines 126 and 136 swapped: Timeout is a RequestException,
\* so a timeout is never retried
on_response_timeout_fatal(response, retry_count) ==
    IF response.kind \in {"Timeout", "RequestException"} THEN Return(None)
    ELSE IF response.status_code = 200 THEN on_status_200(response.body)
    ELSE IF response.status_code \in FATAL_STATUS_CODES THEN Return(None)
    ELSE IF response.status_code \in RETRYABLE_STATUS_CODES \/ response.status_code = 403
         THEN backoff(retry_count)
    ELSE Return(None)

\* lines 94-142
on_response(response, retry_count) ==
    IF response.kind = "Timeout" THEN backoff(retry_count)
    ELSE IF response.kind = "RequestException" THEN Return(None)
    ELSE IF response.status_code = 200 THEN on_status_200(response.body)
    ELSE IF response.status_code \in FATAL_STATUS_CODES THEN Return(None)
    ELSE IF response.status_code \in RETRYABLE_STATUS_CODES \/ response.status_code = 403
         THEN backoff(retry_count)
    ELSE Return(None)

\* classes of request outcomes, as recorded in the log of a call
ResponseClass(response) ==
    IF response.kind # "response" THEN response.kind
    ELSE IF response.status_code = 200
         THEN IF response.body.t = "object" /\ "ErrorDetails" \in DOMAIN response.body.v
              THEN "ErrorDetails"
              ELSE "200"
    ELSE IF response.status_code \in {500, 503} THEN "5xx"
    ELSE IF response.status_code = 403 THEN "403"
    ELSE "4xx"

\* ------------------------------------------------------------------------
\* The store: table parking_data (lines 44-56).  The surrogate id and the
\* wall-clock collected_at column are left out of the rows.
\* ------------------------------------------------------------------------
\* json.dumps(data): a string that carries the whole payload
dumps(x) == [t |-> "str", v |-> x]

\* types sqlite3 can bind to a parameter
Bindable(x) == x.t \in {"null", "int", "str"}

\* UNIQUE(facility_id, message_date)
Key(row) == <<row.facility_id, row.message_date>>

NotNullColumns == {"facility_id", "facility_name", "message_date", "raw_response"}

\* the table declared without its UNIQUE constraint
insert_without_unique(store, row, storage) ==
    IF storage # "ok" THEN [db |-> store, exc |-> "OperationalError"]
    ELSE IF \E c \in DOMAIN row : ~Bindable(row[c])
         THEN [db |-> store, exc |-> "ProgrammingError"]
    ELSE IF \E c \in {"facility_id", "facility_name", "message_date", "raw_response"} :
               row[c] = None
         THEN [db |-> store, exc |-> "IntegrityError: NOT NULL"]
    ELSE [db |-> store \cup {row}, exc |-> ""]

\* INSERT INTO parking_data ... (lines 169-175); storage is the condition of
\* the database file: "ok", or "OperationalError" (locked, disk full, ...)
insert(store, row, storage) ==
    IF storage # "ok" THEN [db |-> store, exc |-> "OperationalError"]
    ELSE IF \E c \in DOMAIN row : ~Bindable(row[c])
         THEN [db |-> store, exc |-> "ProgrammingError"]
    ELSE IF \E c \in NotNullColumns : row[c] = None
         THEN [db |-> store, exc |-> "IntegrityError: NOT NULL"]
    ELSE IF \E r \in store : Key(r) = Key(row)
         THEN [db |-> store, exc |-> "IntegrityError: UNIQUE"]
    ELSE [db |-> store \cup {row}, exc |-> ""]

\* except sqlite3.IntegrityError (line 177)
IsIntegrityError(exc) == exc \in {"IntegrityError: NOT NULL", "IntegrityError: UNIQUE"}

\* save_parking_data(data) (lines 145-180): the new store and how the call
\* ends: "saved", "skipped" (the except branch) or "raised"
save_parking_data(payload, store, storage) ==
    IF storage # "ok" THEN [db |-> store, result |-> "raised", exc |-> "OperationalError"]
    ELSE IF ~HasGet(payload)
         THEN [db |-> store, result |-> "raised", exc |-> "AttributeError"]
    ELSE LET occupancy == Get(payload, "occupancy", EmptyDict)
         IN  IF ~HasGet(occupancy)
             THEN [db |-> store, result |-> "raised", exc |-> "AttributeError"]
             ELSE LET row == [facility_id     |-> Get(payload, "facility_id", None),
                              facility_name   |-> Get(payload, "facility_name", JStr("")),
                              message_date    |-> Get(payload, "MessageDate", JStr("")),
                              total_spots     |-> Get(payload, "spots", None),
                              total_occupancy |-> Get(occupancy, "total", None),
                              raw_response    |-> dumps(payload)]
                      ins == insert(store, row, storage)
                  IN  IF ins.exc = "" THEN [db |-> ins.db, result |-> "saved", exc |-> ""]
                      ELSE IF IsIntegrityError(ins.exc)
                           THEN [db |-> ins.db, result |-> "skipped", exc |-> ins.exc]
                      ELSE [db |-> ins.db, result |-> "raised", exc |-> ins.exc]

\* ------------------------------------------------------------------------
\* State
\* ------------------------------------------------------------------------
VARIABLES
    API_KEY,               \* whether OPEN_DATA_API_KEY is set (line 24)
    caller,                \* "main": the script runs main(); "direct": fetch_parking_data is called on its own
    pc,                    \* where the single thread of control is
    exit_status,           \* "running", or how the process ended
    db_ready,              \* init_database has created the table
    db,                    \* rows of parking_data
    consecutive_failures,  \* main(), line 221
    cycles,                \* outcomes of the failed polling cycles since the last successful one
    idx,                   \* position of facility_id in FACILITIES (line 193)
    success_count,         \* poll_all_facilities, line 191
    data,                  \* value returned by fetch_parking_data (line 194)
    saved,                 \* how the save_parking_data call for this facility ended
    retry_count,           \* attempt index of the running fetch_parking_data invocation
    requests,              \* direct calls only: number of requests.get calls of the top-level call
    sleeps,                \* direct calls only: the time.sleep calls of the top-level call, in order
    seen,                  \* direct calls only: classes of the outcomes its requests had
    upstream,              \* what the API answers for each facility: a fixed outcome, or AnyOutcome
    pass,                  \* calls of poll_all_facilities on its own: how many have been made
    tally,                 \* calls of poll_all_facilities on its own: what the running call did
    polled,                \* calls of poll_all_facilities on its own: how the call ended
    interrupted            \* SIGINT has been delivered

vars == <<API_KEY, caller, pc, exit_status, db_ready, db, consecutive_failures,
          cycles, idx, success_count, data, saved, retry_count, requests,
          sleeps, seen, upstream, pass, tally, polled, interrupted>>

\* the mutable part of the state as one record
Cur ==
    [pc |-> pc, exit_status |-> exit_status, db_ready |-> db_ready, db |-> db,
     consecutive_failures |-> consecutive_failures, cycles |-> cycles,
     idx |-> idx, success_count |-> success_count, data |-> data,
     saved |-> saved, retry_count |-> retry_count, requests |-> requests,
     sleeps |-> sleeps, seen |-> seen, pass |-> pass, tally |-> tally,
     polled |-> polled, interrupted |-> interrupted]

Set(s) ==
    /\ pc' = s.pc
    /\ exit_status' = s.exit_status
    /\ db_ready' = s.db_ready
    /\ db' = s.db
    /\ consecutive_failures' = s.consecutive_failures
    /\ cycles' = s.cycles
    /\ idx' = s.idx
    /\ success_count' = s.success_count
    /\ data' = s.data
    /\ saved' = s.saved
    /\ retry_count' = s.retry_count
    /\ requests' = s.requests
    /\ sleeps' = s.sleeps
    /\ seen' = s.seen
    /\ pass' = s.pass
    /\ tally' = s.tally
    /\ polled' = s.polled
    /\ interrupted' = s.interrupted
    /\ UNCHANGED <<API_KEY, caller, upstream>>

\* requests.get and time.sleep are recorded when fetch_parking_data is
\* exercised on its own
Recording == caller = "direct"

\* the steps of poll_all_facilities are tallied when it is exercised on its own
Observed == caller = "poll"

\* nothing done yet: fetches that returned a value other than None, those of
\* them whose value was empty, rows written, inserts skipped, pacing sleeps
NoTally == [fetched |-> 0, empty |-> 0, wrote |-> 0, skipped |-> 0, paced |-> 0]

Tally(s, what) == IF Observed THEN [s EXCEPT !.tally[what] = @ + 1] ELSE s

\* no save_parking_data call has been made for this facility
NoSave == [result |-> "none", exc |-> "", storage |-> ""]

\* the locals of a fetch_parking_data call tree are gone once it has
\* returned or raised
PopFetch(s) == [s EXCEPT !.retry_count = 0, !.requests = 0, !.sleeps = <<>>, !.seen = {}]

\* the locals of poll_all_facilities are gone once it has returned or raised
PopPoll(s) == [PopFetch(s) EXCEPT !.idx = 0, !.success_count = 0, !.data = None, !.saved = NoSave]

\* sys.exit(status), or the interpreter ending on an uncaught exception
Exit(s, status) == [s EXCEPT !.pc = "exited", !.exit_status = status]

\* ------------------------------------------------------------------------
\* main(): the supervisor loop
\* ------------------------------------------------------------------------
\* a KeyboardInterrupt handled like any other exception
main_interrupt_as_error(s) ==
    LET n  == s.consecutive_failures + 1
        s1 == [s EXCEPT !.consecutive_failures = n, !.cycles = Append(@, "exception")]
    IN  IF n >= MAX_CONSECUTIVE_FAILURES THEN Exit(s1, "1")
        ELSE [s1 EXCEPT !.pc = "error_interval"]

\* except KeyboardInterrupt (lines 243-245)
main_interrupt(s) == Exit(s, "0")

\* the threshold compared with > instead of >=
threshold_exceeded(n) == n > MAX_CONSECUTIVE_FAILURES

\* lines 233 and 250
threshold_reached(n) == n >= MAX_CONSECUTIVE_FAILURES

\* main() without its except Exception clause: the exception ends the process
main_except_missing(s) ==
    Exit([PopPoll(s) EXCEPT !.cycles = Append(@, "exception")], "1")

\* an except clause that logs the exception and does not count it
main_except_uncounted(s) ==
    [PopPoll(s) EXCEPT !.cycles = Append(@, "exception"), !.pc = "error_interval"]

\* except Exception (lines 246-256); at sys.exit the frame that raised is
\* left as it was
main_except(s) ==
    LET n  == s.consecutive_failures + 1
        s1 == [s EXCEPT !.consecutive_failures = n, !.cycles = Append(@, "exception")]
    IN  IF threshold_reached(n) THEN Exit(s1, "1")
        ELSE [PopPoll(s1) EXCEPT !.pc = "error_interval"]

\* a successful cycle that leaves the counter alone
keep_failures(n) == n

\* the value consecutive_failures takes after a successful cycle (line 228)
reset_failures(n) == 0

\* a failed cycle that adds 2 to the counter
main_after_poll_counts_twice(s, success) ==
    IF success
    THEN [PopPoll(s) EXCEPT !.consecutive_failures = reset_failures(@),
                            !.cycles = <<>>, !.pc = "interval"]
    ELSE LET n  == s.consecutive_failures + 2
             s1 == [PopPoll(s) EXCEPT !.consecutive_failures = n,
                                      !.cycles = Append(@, "False")]
         IN  IF threshold_reached(n) THEN Exit(s1, "1")
             ELSE [s1 EXCEPT !.pc = "interval"]

\* lines 227-241, with success the value poll_all_facilities returned
main_after_poll(s, success) ==
    IF success
    THEN [PopPoll(s) EXCEPT !.consecutive_failures = reset_failures(@),
                            !.cycles = <<>>, !.pc = "interval"]
    ELSE LET n  == s.consecutive_failures + 1
             s1 == [PopPoll(s) EXCEPT !.consecutive_failures = n,
                                      !.cycles = Append(@, "False")]
         IN  IF threshold_reached(n) THEN Exit(s1, "1")
             ELSE [s1 EXCEPT !.pc = "interval"]

\* ------------------------------------------------------------------------
\* poll_all_facilities
\* ------------------------------------------------------------------------
\* a cycle that counts as successful only when every facility was saved
cycle_success_all(n) == n = Len(FACILITIES)

\* line 205
cycle_success(n) == n > 0

\* poll_all_facilities returns success to its caller
poll_return(s, success) ==
    IF caller = "main" THEN main_after_poll(s, success)
    ELSE [s EXCEPT !.pc = "poll_returned",
                   !.polled = IF success THEN "True" ELSE "False"]

\* an exception leaves poll_all_facilities, which has no handler; origin is
\* the call it comes from
poll_raise(s, origin) ==
    IF caller = "main" THEN main_except(s)
    ELSE [s EXCEPT !.pc = "poll_raised", !.polled = origin]

\* the test of line 201 made against the first facility instead of the last
poll_next_first_is_last(s) ==
    IF FACILITIES[s.idx] # FACILITIES[1]
    THEN [Tally(s, "paced") EXCEPT !.pc = "rate_limit_sleep"]
    ELSE poll_return(s, cycle_success(s.success_count))

\* lines 200-205: pace, or end the cycle after the last facility
poll_next(s) ==
    IF FACILITIES[s.idx] # FACILITIES[Len(FACILITIES)]
    THEN [Tally(s, "paced") EXCEPT !.pc = "rate_limit_sleep"]
    ELSE poll_return(s, cycle_success(s.success_count))

\* lines 194-198: fetch_parking_data has returned value
poll_after_fetch(s, value) ==
    LET s1 == IF value = None THEN s
              ELSE IF Truthy(value) THEN Tally(s, "fetched")
              ELSE Tally(Tally(s, "fetched"), "empty")
    IN  IF Truthy(value) THEN [s1 EXCEPT !.data = value, !.pc = "save"]
        ELSE poll_next([s1 EXCEPT !.data = value])

\* line 198 left out: a save that returns is not counted
poll_after_save_uncounted(s, r) ==
    IF r.result = "raised" THEN poll_raise(s, "save_parking_data raised")
    ELSE poll_next(Tally(s, IF r.result = "saved" THEN "wrote" ELSE "skipped"))

\* lines 197-198: save_parking_data has ended as r says
poll_after_save(s, r) ==
    IF r.result = "raised" THEN poll_raise(s, "save_parking_data raised")
    ELSE poll_next([Tally(s, IF r.result = "saved" THEN "wrote" ELSE "skipped")
                       EXCEPT !.success_count = @ + 1])

\* ------------------------------------------------------------------------
\* fetch_parking_data: call, return and raise
\* ------------------------------------------------------------------------
fetch_return(s, value) ==
    IF caller = "direct" THEN [s EXCEPT !.pc = "returned", !.data = value]
    ELSE poll_after_fetch(PopFetch(s), value)

fetch_raise(s, exc) ==
    IF caller = "direct" THEN [s EXCEPT !.pc = "raised"]
    ELSE poll_raise(s, "fetch_parking_data raised")

\* fetch_parking_data without the credential check of line 85
fetch_call_unchecked(s, rc) ==
    [s EXCEPT !.retry_count = rc, !.pc = "request",
              !.requests = IF Recording THEN @ + 1 ELSE @]

\* lines 85-95: an invocation with attempt index rc, up to its request
fetch_call(s, rc) ==
    IF ~API_KEY THEN fetch_return([s EXCEPT !.retry_count = rc], None)
    ELSE [s EXCEPT !.retry_count = rc, !.pc = "request",
                   !.requests = IF Recording THEN @ + 1 ELSE @]

\* line 194: the top-level call for the facility at position i
fetch_facility(s, i) ==
    fetch_call([PopFetch(s) EXCEPT !.idx = i, !.data = None, !.saved = NoSave], 0)

\* lines 190-194: a cycle starts
poll_all_facilities(s) ==
    fetch_facility([s EXCEPT !.success_count = 0, !.tally = NoTally, !.polled = "none"], 1)

\* ------------------------------------------------------------------------
\* Initial states
\* ------------------------------------------------------------------------
InitLocals ==
    /\ exit_status = "running"
    /\ db_ready = FALSE
    /\ db = {}
    /\ consecutive_failures = 0
    /\ cycles = <<>>
    /\ idx = 0
    /\ success_count = 0
    /\ data = None
    /\ saved = NoSave
    /\ retry_count = 0
    /\ requests = 0
    /\ sleeps = <<>>
    /\ seen = {}
    /\ pass = 0
    /\ tally = NoTally
    /\ polled = "none"
    /\ interrupted = FALSE

\* the API is free to answer every request differently
AnyAnswer == [i \in 1..Len(FACILITIES) |-> AnyOutcome]

\* python parking_collector.py
Init ==
    /\ API_KEY \in BOOLEAN
    /\ caller = "main"
    /\ pc = "start"
    /\ upstream = AnyAnswer
    /\ InitLocals

\* fetch_parking_data called on its own, with or without the credential
InitFetch ==
    /\ API_KEY \in BOOLEAN
    /\ caller = "direct"
    /\ pc = "call"
    /\ upstream = AnyAnswer
    /\ InitLocals

\* save_parking_data called on its own, any number of times
InitSave ==
    /\ API_KEY \in BOOLEAN
    /\ caller = "direct"
    /\ pc = "call_save"
    /\ upstream = AnyAnswer
    /\ InitLocals

\* poll_all_facilities called on its own, up to MaxPass times in a row, on an
\* initialised database
InitPoll ==
    /\ API_KEY \in BOOLEAN
    /\ caller = "poll"
    /\ pc = "call_poll"
    /\ upstream = AnyAnswer
    /\ exit_status = "running"
    /\ db_ready = TRUE
    /\ db = {}
    /\ consecutive_failures = 0
    /\ cycles = <<>>
    /\ idx = 0
    /\ success_count = 0
    /\ data = None
    /\ saved = NoSave
    /\ retry_count = 0
    /\ requests = 0
    /\ sleeps = <<>>
    /\ seen = {}
    /\ pass = 0
    /\ tally = NoTally
    /\ polled = "none"
    /\ interrupted = FALSE

\* poll_all_facilities called on its own while the API is down
InitOutage ==
    /\ API_KEY = TRUE
    /\ caller = "poll"
    /\ pc = "call_poll"
    /\ upstream = [i \in 1..Len(FACILITIES) |-> Outage]
    /\ exit_status = "running"
    /\ db_ready = TRUE
    /\ db = {}
    /\ consecutive_failures = 0
    /\ cycles = <<>>
    /\ idx = 0
    /\ success_count = 0
    /\ data = None
    /\ saved = NoSave
    /\ retry_count = 0
    /\ requests = 0
    /\ sleeps = <<>>
    /\ seen = {}
    /\ pass = 0
    /\ tally = NoTally
    /\ polled = "none"
    /\ interrupted = FALSE

\* the same, against an API whose answer for each facility never changes
InitTwice ==
    /\ API_KEY = TRUE
    /\ caller = "poll"
    /\ pc = "call_poll"
    /\ upstream \in UnchangedAnswers
    /\ exit_status = "running"
    /\ db_ready = TRUE
    /\ db = {}
    /\ consecutive_failures = 0
    /\ cycles = <<>>
    /\ idx = 0
    /\ success_count = 0
    /\ data = None
    /\ saved = NoSave
    /\ retry_count = 0
    /\ requests = 0
    /\ sleeps = <<>>
    /\ seen = {}
    /\ pass = 0
    /\ tally = NoTally
    /\ polled = "none"
    /\ interrupted = FALSE

\* ------------------------------------------------------------------------
\* Steps
\* ------------------------------------------------------------------------
\* lines 208-219, up to the call of init_database
main ==
    /\ pc = "start"
    /\ caller = "main"
    /\ Set(IF ~API_KEY THEN Exit(Cur, "1") ELSE [Cur EXCEPT !.pc = "init_database"])

\* lines 39-71 and 221-225; a database error here is not caught by anyone
init_database ==
    /\ pc = "init_database"
    /\ \E storage \in {"ok", "OperationalError"} :
          Set(IF storage = "ok"
              THEN poll_all_facilities([Cur EXCEPT !.db_ready = TRUE,
                                                   !.consecutive_failures = 0])
              ELSE Exit(Cur, "1"))

\* line 95 completes: the request of the running invocation has an outcome
http_response ==
    /\ pc = "request"
    /\ \E response \in Answers(upstream[idx], FACILITIES[idx]) :
          LET s   == [Cur EXCEPT !.seen = IF Recording
                                         THEN @ \cup {ResponseClass(response)} ELSE @]
              out == on_response(response, retry_count)
          IN  Set(CASE out.do = "return" -> fetch_return(s, out.value)
                    [] out.do = "raise"  -> fetch_raise(s, out.exc)
                    [] out.do = "retry"  ->
                         [s EXCEPT !.pc = "backoff",
                                   !.sleeps = IF Recording
                                              THEN Append(@, out.wait_time) ELSE @])

\* lines 116-117 and 130-131: the backoff sleep ends and the function calls itself
backoff_done ==
    /\ pc = "backoff"
    /\ Set(fetch_call(Cur, retry_count + 1))

\* the conditions the database file can be in when line 169 runs; the
\* unchanging environment of the repeated runs has a working database
StorageConditions ==
    IF upstream = AnyAnswer THEN {"ok", "OperationalError"} ELSE {"ok"}

\* lines 197-198
save ==
    /\ pc = "save"
    /\ \E storage \in StorageConditions :
          LET r == save_parking_data(data, db, storage)
              s == [Cur EXCEPT !.db = r.db,
                               !.saved = [result |-> r.result, exc |-> r.exc,
                                          storage |-> storage]]
          IN  Set(poll_after_save(s, r))

\* line 202 ends: on to the next facility
rate_limit_sleep_done ==
    /\ pc = "rate_limit_sleep"
    /\ Set(fetch_facility(Cur, idx + 1))

\* line 241 ends: next iteration of while True
interval_done ==
    /\ pc = "interval"
    /\ Set(poll_all_facilities(Cur))

\* line 256 ends: next iteration of while True
error_interval_done ==
    /\ pc = "error_interval"
    /\ Set(poll_all_facilities(Cur))

\* SIGINT raises KeyboardInterrupt in the main thread.  Inside the try block
\* (lines 224-241) it reaches line 243; during the sleep of line 256, which
\* runs inside the except clause, nothing catches it.
keyboard_interrupt ==
    /\ caller = "main"
    /\ pc \in {"request", "backoff", "rate_limit_sleep", "interval", "error_interval"}
    /\ Set(IF pc = "error_interval"
           THEN Exit([Cur EXCEPT !.interrupted = TRUE], "KeyboardInterrupt")
           ELSE main_interrupt([Cur EXCEPT !.interrupted = TRUE]))

\* a test or a REPL calls fetch_parking_data(FACILITIES[i]) directly
call_fetch ==
    /\ pc = "call"
    /\ caller = "direct"
    /\ \E i \in 1..Len(FACILITIES) : Set(fetch_facility(Cur, i))

\* payloads a caller can hand to save_parking_data: readings of the first
\* and of the last facility
Payloads ==
    {JArr(<<JInt(FACILITIES[1])>>), EmptyDict}
    \cup UNION {{Reading(FACILITIES[i], d), SparseReading(FACILITIES[i], d),
                 NullOccupancyReading(FACILITIES[i], d), AnonymousReading(d)} :
                i \in {1, Len(FACILITIES)}, d \in Dates}

\* a test or a REPL calls save_parking_data(payload) directly
call_save ==
    /\ pc = "call_save"
    /\ caller = "direct"
    /\ \E payload \in Payloads, storage \in {"ok", "OperationalError"} :
          LET r == save_parking_data(payload, db, storage)
          IN  Set([Cur EXCEPT !.data = payload, !.db = r.db,
                              !.saved = [result |-> r.result, exc |-> r.exc,
                                         storage |-> storage]])

\* a test or a REPL calls poll_all_facilities() directly, again after it
\* has returned or raised
call_poll ==
    /\ pc \in {"call_poll", "poll_returned", "poll_raised"}
    /\ caller = "poll"
    /\ pass < MaxPass
    /\ Set(poll_all_facilities([Cur EXCEPT !.pass = @ + 1]))

Next ==
    \/ main
    \/ init_database
    \/ http_response
    \/ backoff_done
    \/ save
    \/ rate_limit_sleep_done
    \/ interval_done
    \/ error_interval_done
    \/ keyboard_interrupt

Spec == Init /\ [][Next]_vars

NextFetch ==
    \/ call_fetch
    \/ http_response
    \/ backoff_done

SpecFetch == InitFetch /\ [][NextFetch]_vars

NextSave == call_save

SpecSave == InitSave /\ [][NextSave]_vars

NextPoll ==
    \/ call_poll
    \/ http_response
    \/ backoff_done
    \/ save
    \/ rate_limit_sleep_done

SpecPoll == InitPoll /\ [][NextPoll]_vars

SpecTwice == InitTwice /\ [][NextPoll]_vars

\* the script and the direct calls of fetch_parking_data together
SpecAll == (Init \/ InitFetch) /\ [][Next \/ NextFetch]_vars

\* direct calls of fetch_parking_data against any API, and calls of
\* poll_all_facilities during an outage of the API
NextOutage ==
    \/ call_fetch
    \/ call_poll
    \/ http_response
    \/ backoff_done
    \/ rate_limit_sleep_done

\* requests always come to an outcome (line 95 sets a timeout of 30 seconds)
\* and backoff sleeps always end
SpecOutage ==
    /\ InitFetch \/ InitOutage
    /\ [][NextOutage]_vars
    /\ WF_vars(http_response)
    /\ WF_vars(backoff_done)

\* ------------------------------------------------------------------------
\* Properties
\* ------------------------------------------------------------------------
\* the three most recent outcomes of q exist and are all of the given kinds
LastThree(q, kinds) ==
    /\ Len(q) >= 3
    /\ \A i \in (Len(q) - 2)..Len(q) : q[i] \in kinds

Range(q) == {q[i] : i \in DOMAIN q}

\* C1: once three polling cycles in a row have returned False, main() exits
\* with status 1 in the very step that ends the third cycle (it does not enter
\* the interval sleep), and an exited process takes no further step, so no
\* fourth cycle is ever started.
C1_ThreeFailedCyclesExit ==
    /\ [][(cycles' # cycles /\ LastThree(cycles', {"False"}))
            => (pc' = "exited" /\ exit_status' = "1")]_vars
    /\ [][pc = "exited" => UNCHANGED vars]_vars

C1_Witness ==
    /\ pc = "exited"
    /\ exit_status = "1"
    /\ LastThree(cycles, {"False"})

\* C2: after a cycle for which poll_all_facilities returned True the counter
\* is 0, and main() exits on the threshold only when the three most recent
\* cycles all failed.
C2_SuccessResetsCounter ==
    /\ (pc = "interval" /\ cycles = <<>>) => consecutive_failures = 0
    /\ (pc = "exited" /\ exit_status = "1" /\ db_ready)
          => LastThree(cycles, {"False", "exception"})

\* a partially successful cycle (one row in the store) has reset the counter
C2_Witness ==
    /\ pc = "interval"
    /\ cycles = <<>>
    /\ consecutive_failures = 0
    /\ Cardinality(db) = 1

\* C3: a cycle that ends in an exception, like one that returns False, adds
\* exactly 1 to the counter; the third failure in a row, of either kind, exits
\* with status 1; with fewer the process keeps running, sleeps the poll
\* interval and then starts the next cycle.
C3_ExceptionCountsAsFailure ==
    /\ [][(\E kind \in {"False", "exception"} : cycles' = Append(cycles, kind))
            => /\ consecutive_failures' = consecutive_failures + 1
               /\ consecutive_failures' = Len(cycles')
               /\ IF Len(cycles') >= 3
                  THEN pc' = "exited" /\ exit_status' = "1"
                  ELSE /\ exit_status' = "running"
                       /\ pc' = IF cycles'[Len(cycles')] = "exception"
                                THEN "error_interval" ELSE "interval"]_vars
    /\ [][(pc \in {"interval", "error_interval"} /\ pc' \notin {pc, "exited"})
            => (pc' = "request" /\ idx' = 1 /\ exit_status' = "running")]_vars

C3_Witness ==
    /\ pc = "exited"
    /\ exit_status = "1"
    /\ Len(cycles) = 3
    /\ {"False", "exception"} \subseteq Range(cycles)

\* C4: whenever the process ends during an inter-cycle sleep (only a
\* KeyboardInterrupt ends it there), it ends with status 0, after a successful
\* cycle, after a cycle that returned False and after a cycle that raised.
C4_InterruptInSleepExitsZero ==
    [][(pc \in {"interval", "error_interval"} /\ pc' = "exited")
         => exit_status' = "0"]_vars

Schedule == <<1, 2, 4, 8, 16>>

\* C5: in a top-level fetch call all of whose responses had status 500 or
\* 503, the backoff sleeps are a prefix of 1, 2, 4, 8, 16, there are never more
\* than five sleeps or six requests, and the call ends by returning None after
\* exactly the five sleeps and six requests.
C5_ServerErrorBackoff ==
    seen = {"5xx"}
       => /\ Len(sleeps) <= 5
          /\ sleeps = SubSeq(Schedule, 1, Len(sleeps))
          /\ requests <= 6
          /\ pc \in {"returned", "raised"}
                => (pc = "returned" /\ data = None /\ sleeps = Schedule /\ requests = 6)

C5_Witness ==
    /\ pc = "returned"
    /\ seen = {"5xx"}
    /\ sleeps = Schedule
    /\ requests = 6

\* C6: in a call that has met only timeouts and 500/503 statuses, at least
\* one of them a timeout, the outcome at attempt index k < 5 is a sleep of 2^k
\* seconds followed by an invocation with index k + 1, and at index 5 it is
\* the return of None with no further sleep; a payload is returned after
\* exactly as many sleeps as there were retryable failures before it.
C6_TimeoutBackoff ==
    /\ [][(pc = "request" /\ seen' \subseteq {"5xx", "Timeout"} /\ "Timeout" \in seen')
            => IF retry_count < 5
               THEN /\ pc' = "backoff"
                    /\ sleeps' = Append(sleeps, 2 ^ retry_count)
                    /\ requests' = requests
               ELSE /\ pc' = "returned"
                    /\ data' = None
                    /\ sleeps' = sleeps
                    /\ requests' = requests]_vars
    /\ [][pc = "backoff"
            => /\ pc' = "request"
               /\ retry_count' = retry_count + 1
               /\ requests' = requests + 1
               /\ sleeps' = sleeps]_vars
    /\ [][(pc = "request" /\ pc' = "returned" /\ data' # None)
            => /\ data' \in Bodies(FACILITIES[idx])
               /\ sleeps' = sleeps
               /\ Len(sleeps) = retry_count
               /\ requests' = retry_count + 1
               /\ seen \subseteq {"5xx", "Timeout"}]_vars

\* five timeouts, then a reading
C6_Witness ==
    /\ pc = "returned"
    /\ Truthy(data)
    /\ seen = {"Timeout", "200"}
    /\ sleeps = Schedule

\* C7: a call that received a 200 body with the key ErrorDetails has returned
\* None, and the invocation that received it made one request and slept not
\* at all.
C7_ErrorDetailsReturnsNone ==
    "ErrorDetails" \in seen
       => /\ pc = "returned"
          /\ data = None
          /\ Len(sleeps) = retry_count
          /\ requests = retry_count + 1

\* C8: fetch_parking_data never raises to its caller.
C8_FetchNeverRaises == pc # "raised"

\* C9: without the credential fetch_parking_data returns None with no request
\* and no sleep, and main() exits with status 1 with the database not
\* initialised and no cycle run.
C9_MissingCredential ==
    ~API_KEY
       => /\ requests = 0
          /\ sleeps = <<>>
          /\ ~db_ready
          /\ cycles = <<>>
          /\ caller = "direct" => (pc \in {"call", "returned"} /\ data = None)
          /\ caller = "main" => /\ pc \in {"start", "exited"}
                                /\ pc = "exited" => exit_status = "1"

C9_Witness ==
    /\ ~API_KEY
    /\ \/ caller = "direct" /\ pc = "returned" /\ data = None /\ requests = 0
       \/ caller = "main" /\ pc = "exited" /\ exit_status = "1" /\ ~db_ready

\* at most one row per (facility_id, message_date)
UniqueRows == \A r1, r2 \in db : Key(r1) = Key(r2) => r1 = r2

\* the payload names a (facility_id, MessageDate) pair that a row of the store has
PairStored(payload, store) ==
    /\ HasGet(payload)
    /\ {"facility_id", "MessageDate"} \subseteq DOMAIN payload.v
    /\ \E r \in store : /\ r.facility_id = payload.v["facility_id"]
                        /\ r.message_date = payload.v["MessageDate"]

\* the field extraction of lines 155-166 succeeds on the payload
Extractable(payload) == HasGet(payload) /\ HasGet(Get(payload, "occupancy", EmptyDict))

C11_OnlyUniqueAbsorbed ==
    /\ [](saved.result = "skipped" => saved.exc = "IntegrityError: UNIQUE")
    /\ [][(pc = "save" /\ db' = db /\ ~PairStored(data, db))
            => /\ cycles' = Append(cycles, "exception")
               /\ consecutive_failures' = consecutive_failures + 1]_vars

\* C12 (as claimed): a call of poll_all_facilities that returns, returns True
\* if and only if a save of this cycle wrote a row.
C12_TrueIffRowWritten ==
    pc = "poll_returned" => (polled = "True" <=> tally.wrote > 0)

\* C12 (amended): a call that returns, returns True if and only if for at
\* least one facility the fetch returned a non-empty payload and the save of
\* it returned normally, having written a row or having skipped the insert;
\* it returns False when there was no such facility.  Rows written imply True.
C12_TrueIffSaveReturned ==
    pc = "poll_returned"
       => /\ polled \in {"True", "False"}
          /\ polled = "True" <=> tally.wrote + tally.skipped > 0
          /\ tally.wrote > 0 => polled = "True"
          /\ tally.wrote + tally.skipped <= tally.fetched - tally.empty

\* a cycle all of whose saves were skipped returned True
C12_Witness ==
    /\ pc = "poll_returned"
    /\ polled = "True"
    /\ tally.wrote = 0
    /\ tally.skipped = Len(FACILITIES)

\* number of facilities poll_all_facilities iterates over
N == Len(FACILITIES)

\* the poll_all_facilities call under observation has ended
PollEnded == pc \in {"poll_returned", "poll_raised"}

C14_FetchFailureNeverAborts ==
    /\ [](polled # "fetch_parking_data raised")
    /\ []((PollEnded /\ polled # "save_parking_data raised") => idx = N)
    /\ [][(pc = "request" /\ pc' \notin {"request", "backoff", "save"})
            => /\ idx' = idx
               /\ pc' = IF idx < N THEN "rate_limit_sleep" ELSE "poll_returned"]_vars
    /\ [][pc = "rate_limit_sleep"
            => /\ idx' = idx + 1
               /\ retry_count' = 0
               /\ API_KEY => pc' = "request"]_vars

\* C15: against an API whose answers do not change, every call of
\* poll_all_facilities after the first writes no row, so that the store stays
\* what the first call left; each of its saves ends as a skipped insert; and
\* it raises no error.
C15_SecondPassIdempotent ==
    pass >= 2
       => /\ tally.wrote = 0
          /\ saved.result \in {"none", "skipped"}
          /\ polled \in {"none", "True", "False"}

\* C16: a call of poll_all_facilities that returns has slept N - 1 pacing
\* sleeps; while it runs it has slept one for every facility it is done with;
\* a pacing sleep starts only when a facility other than the last is done
\* with, its fetch failed or its save returned; the facility after it is the
\* next of FACILITIES, and its fetch starts only when the pacing sleep ends,
\* hence after the save of the facility before it.
C16_PacingBetweenFacilities ==
    /\ [](pc = "poll_returned" => (tally.paced = N - 1 /\ idx = N))
    /\ [](idx >= 1 => tally.paced = IF pc = "rate_limit_sleep" THEN idx ELSE idx - 1)
    /\ [][(pass' = pass /\ idx' # idx)
            => (pc = "rate_limit_sleep" /\ idx < N /\ idx' = idx + 1)]_vars
    /\ [][pc = "rate_limit_sleep" => idx' = idx + 1]_vars
    /\ [][pc = "save"
            => /\ idx' = idx
               /\ pc' \in {"rate_limit_sleep", "poll_returned", "poll_raised"}
               /\ pc' = "rate_limit_sleep" <=> (idx < N /\ saved'.result # "raised")]_vars
    /\ [][(pc = "request" /\ pc' \in {"rate_limit_sleep", "poll_returned"})
            => (pc' = "rate_limit_sleep" <=> idx < N)]_vars

\* a completed cycle in which some fetches failed and some readings were saved
C16_Witness ==
    /\ pc = "poll_returned"
    /\ tally.paced = N - 1
    /\ tally.fetched \in 1..(N - 1)
    /\ tally.wrote >= 1

\* classes of the statuses other than 200, 500 and 503
OtherStatuses == {"4xx", "403"}

\* C17: the invocation whose request is answered with a status other than
\* 200, 500 and 503 (401, 403, 404, 429) returns None at once: it sleeps not,
\* requests nothing more and does not call itself; a top-level call that has
\* met nothing else has made one request and no sleep.  403 is no exception.
C17_OtherStatusesFatal ==
    /\ []((seen \cap OtherStatuses # {})
            => /\ pc = "returned"
               /\ data = None
               /\ Len(sleeps) = retry_count
               /\ requests = retry_count + 1)
    /\ []((seen # {} /\ seen \subseteq OtherStatuses)
            => (requests = 1 /\ sleeps = <<>> /\ retry_count = 0))
    /\ [][(seen' \cap OtherStatuses # {} /\ seen \cap OtherStatuses = {})
            => /\ pc = "request"
               /\ pc' = "returned"
               /\ sleeps' = sleeps
               /\ requests' = requests
               /\ retry_count' = retry_count]_vars

\* a first request answered 403
C17_Witness ==
    /\ pc = "returned"
    /\ seen = {"403"}
    /\ data = None
    /\ requests = 1
    /\ sleeps = <<>>

\* the step ends a cycle of main() as a failed one
CycleFails == \E kind \in {"False", "exception"} : cycles' = Append(cycles, kind)

\* C18 (as claimed): the counter is the number of failed cycles since the
\* last successful one, and no facility was fetched and saved in a cycle that
\* is counted as failed.
C18_CounterCountsZeroReadCycles ==
    /\ [](consecutive_failures = Len(cycles))
    /\ [][CycleFails => success_count = 0]_vars

\* C18 (amended): the counter is the number of most recent cycles in a row
\* that returned False or ended in an exception; a cycle that returns False
\* has gone through all facilities with none fetched and saved; a cycle that
\* runs to its end with a facility fetched and saved resets the counter; a
\* cycle counted for an exception was cut short in a fetch or in a save,
\* whatever had been saved before.
C18_CounterCountsFailedCycles ==
    /\ [](consecutive_failures = Len(cycles))
    /\ [][cycles' = Append(cycles, "False")
            => (pc = "request" /\ idx = N /\ success_count = 0)]_vars
    /\ [][cycles' = Append(cycles, "exception")
            => /\ pc \in {"request", "save"}
               /\ success_count \in 0..(idx - 1)
               /\ consecutive_failures' = consecutive_failures + 1]_vars
    /\ [][(pc \in {"request", "save"} /\ idx = N /\ ~interrupted' /\ ~CycleFails)
            => \/ pc' \in {"request", "backoff", "save"}
               \/ /\ pc' = "interval"
                  /\ success_count + (IF pc = "save" THEN 1 ELSE 0) >= 1
                  /\ consecutive_failures' = 0]_vars

\* the third failure in a row was an exception in a cycle that had saved a
\* reading before
C18_Witness ==
    /\ pc = "exited"
    /\ exit_status = "1"
    /\ Len(cycles) = 3
    /\ cycles[3] = "exception"
    /\ success_count >= 1

\* the payload is an object with a facility_id and a MessageDate
CarriesKey(payload) ==
    /\ HasGet(payload)
    /\ {"facility_id", "MessageDate"} \subseteq DOMAIN payload.v
    /\ payload.v["facility_id"] # None
    /\ payload.v["MessageDate"] # None

\* occupancy.total of the payload, null when occupancy or its total is
\* absent or null
OccupancyTotal(payload) ==
    LET occupancy == Get(payload, "occupancy", None)
    IN  IF HasGet(occupancy) THEN Get(occupancy, "total", None) ELSE None

\* C19: on a working database, a save of a payload that carries facility_id
\* and MessageDate, for a pair not yet stored, raises nothing and writes one
\* row: spots and occupancy.total as they are in the payload, null where
\* absent or null, and the whole payload in raw_response.
C19_OptionalFieldsPermissive ==
    [][(CarriesKey(data') /\ saved'.storage = "ok" /\ ~PairStored(data', db))
         => /\ saved'.result = "saved"
            /\ \E row \in db' :
                  /\ db' = db \cup {row}
                  /\ row \notin db
                  /\ row.facility_id = data'.v["facility_id"]
                  /\ row.message_date = data'.v["MessageDate"]
                  /\ row.total_spots = Get(data', "spots", None)
                  /\ row.total_occupancy = OccupancyTotal(data')
                  /\ row.raw_response = dumps(data')]_vars

\* the blocking points inside a polling cycle: the HTTP request, the retry
\* backoff sleep and the pacing sleep
InCycle == {"request", "backoff", "rate_limit_sleep"}

\* C20: a SIGINT can be delivered at every blocking point of a cycle; the
\* step that delivers it ends the process with status 0, with the counter,
\* the history of failed cycles, the store and the position in FACILITIES as
\* they were; and an ended process does nothing more, so that the remaining
\* facilities are not fetched.
C20_InterruptInCycleExitsZero ==
    /\ []((caller = "main" /\ pc \in InCycle) => ENABLED keyboard_interrupt)
    /\ [][(pc \in InCycle /\ interrupted' /\ ~interrupted)
            => /\ pc' = "exited"
               /\ exit_status' = "0"
               /\ consecutive_failures' = consecutive_failures
               /\ cycles' = cycles
               /\ idx' = idx
               /\ db' = db]_vars
    /\ [][pc # "exited"]_vars

\* interrupted at the second facility after two failed cycles: one more
\* failure would have ended the process with status 1
C20_Witness ==
    /\ pc = "exited"
    /\ exit_status = "0"
    /\ interrupted
    /\ idx = 2
    /\ consecutive_failures = 2

RECURSIVE Sum(_)
\* total of a sequence of sleep durations
Sum(q) == IF q = <<>> THEN 0 ELSE q[1] + Sum(Tail(q))

\* a fetch_parking_data call tree is under way
Fetching == pc \in {"request", "backoff"}

\* C21: the attempt index of a call tree never exceeds 5 and is the only
\* thing a retry depends on: a retry, after a timeout or after a 500/503
\* alike, happens only at an index below 5, sleeps 2^index seconds once and
\* calls again with the index one higher; so a top-level call makes at most 6
\* requests and 5 sleeps, the sleeps are a prefix of 1, 2, 4, 8, 16 and sum
\* to at most 31 seconds.  Every call tree comes to an end, and every
\* top-level call, that of each facility in each cycle too, starts at index 0.
C21_SharedAttemptIndex ==
    /\ [](/\ retry_count \in 0..MAX_RETRIES
          /\ requests <= MAX_RETRIES + 1
          /\ Len(sleeps) <= MAX_RETRIES
          /\ sleeps = SubSeq(Schedule, 1, Len(sleeps))
          /\ Sum(sleeps) <= 31
          /\ (Recording /\ pc = "request")
                => (requests = retry_count + 1 /\ Len(sleeps) = retry_count)
          /\ (Recording /\ pc = "backoff")
                => (requests = retry_count + 1 /\ Len(sleeps) = retry_count + 1))
    /\ [][(pc = "request" /\ pc' = "backoff")
            => /\ retry_count < MAX_RETRIES
               /\ retry_count' = retry_count
               /\ Recording => (/\ seen' \ seen \subseteq {"5xx", "Timeout"}
                                /\ sleeps' = Append(sleeps, 2 ^ retry_count))]_vars
    /\ [][(pc = "backoff" /\ ~interrupted')
            => (pc' = "request" /\ retry_count' = retry_count + 1)]_vars
    /\ [][(~Fetching /\ pc' = "request") => retry_count' = 0]_vars
    /\ (Fetching ~> ~Fetching)

\* a top-level call that met timeouts and 500/503 statuses and gave up after
\* the fifth retry
C21_Witness ==
    /\ pc = "returned"
    /\ data = None
    /\ seen = {"5xx", "Timeout"}
    /\ requests = 6
    /\ sleeps = Schedule
    /\ Sum(sleeps) = 31

\* main() is inside its while loop: in a cycle or in a sleep between cycles
InLoop ==
    /\ caller = "main"
    /\ pc \in {"request", "backoff", "save", "rate_limit_sleep", "interval", "error_interval"}

\* C22: the counter is always one of 0, 1, 2, 3; it is at most 2 while
\* main() is in its loop, in a cycle or in a sleep between cycles; it is 3
\* only in a process that has exited with status 1; and a step taken inside
\* the loop ends the process with status 1 if and only if it takes the
\* counter to 3.
C22_CounterRange ==
    /\ [](consecutive_failures \in 0..MAX_CONSECUTIVE_FAILURES)
    /\ [](InLoop => consecutive_failures <= MAX_CONSECUTIVE_FAILURES - 1)
    /\ [](consecutive_failures = MAX_CONSECUTIVE_FAILURES
            => (pc = "exited" /\ exit_status = "1"))
    /\ [][InLoop
            => ((pc' = "exited" /\ exit_status' = "1")
                  <=> (/\ consecutive_failures = MAX_CONSECUTIVE_FAILURES - 1
                       /\ consecutive_failures' = MAX_CONSECUTIVE_FAILURES))]_vars

\* the loop was left with status 1 and the counter at 3
C22_Witness ==
    /\ pc = "exited"
    /\ exit_status = "1"
    /\ db_ready
    /\ consecutive_failures = MAX_CONSECUTIVE_FAILURES

====
